---- MODULE Spec2Model ----
(***************************************************************************)
(* A model of src/rate_embedding.py: the EmbeddingEvaluator (constructor,  *)
(* token chunker, embedder, pooling, cosine scorer) and the batch driver   *)
(* evaluate_results.                                                       *)
(*                                                                         *)
(* Python values are records [kind, s]:                                    *)
(*   kind = "none"  None            kind = "nan"   float NaN               *)
(*   kind = "num"   a number        kind = "list"  a list of numbers       *)
(*   kind = "str"   a string, s its characters                             *)
(*   kind = "float" a similarity score, s = <<sign, p, q>> (see cos_sim)   *)
(* A string is a sequence of character codes: SP is a whitespace           *)
(* character, CTL a control character (not whitespace for str.strip, but   *)
(* dropped by the tokenizer's text cleaning), DIGIT a decimal digit, and   *)
(* every other positive code is a character that the tokenizer turns into  *)
(* one token of the same id.                                               *)
(***************************************************************************)
EXTENDS Integers, Sequences, FiniteSets, TLC

VARIABLES self, call, file, pc, df, si, ncalls, err, outfile, ret, stdout

vars == <<self, call, file, pc, df, si, ncalls, err, outfile, ret, stdout>>

\* ------------------------------------------------------------------ bounds
\* Longest token sequence given to the chunker.
MaxLen == 50
\* Largest number of data rows of an input table.
MaxRows == 2

\* ---------------------------------------------------------- python values
SP == 0
CTL == 0 - 1
DIGIT == 100

None_ == [kind |-> "none", s |-> <<>>]
NaN == [kind |-> "nan", s |-> <<>>]
Num == [kind |-> "num", s |-> <<>>]
Str(s) == [kind |-> "str", s |-> s]
List(s) == [kind |-> "list", s |-> s]
Float(s) == [kind |-> "float", s |-> s]

\* isinstance(text, str)
isinstance_str(v) == v.kind = "str"

RECURSIVE lstrip(_)
lstrip(s) == IF s # <<>> /\ Head(s) = SP THEN lstrip(Tail(s)) ELSE s

RECURSIVE rstrip(_)
rstrip(s) ==
    IF s # <<>> /\ s[Len(s)] = SP THEN rstrip(SubSeq(s, 1, Len(s) - 1)) ELSE s

\* str.strip()
strip(s) == rstrip(lstrip(s))

\* Python's ids[a:b] for 0 <= a and 0 <= b (0-based, end exclusive, clipped).
Slice(ids, a, b) ==
    SubSeq(ids, a + 1, IF b < Len(ids) THEN b ELSE Len(ids))

Min(a, b) == IF a < b THEN a ELSE b
Max(a, b) == IF a > b THEN a ELSE b

\* ---------------------------------------------------------------- tokenizer
IsTokenChar(c) == c > 0

\* tokenizer.encode(text, add_special_tokens=False, truncation=False):
\* whitespace separates, control characters are cleaned away, every other
\* character becomes one token id.
encode(s) == SelectSeq(s, IsTokenChar)

\* tokenizer.decode(ids, skip_special_tokens=True): the tokens joined by
\* single spaces (not, in general, the text the ids were encoded from).
RECURSIVE decode(_)
decode(ids) ==
    IF ids = <<>> THEN <<>>
    ELSE IF Len(ids) = 1 THEN <<ids[1]>>
    ELSE <<ids[1], SP>> \o decode(Tail(ids))

\* -------------------------------------------------------------- constructor
\* Constructor arguments. max_tokens = 0 stands for both None and 0: the
\* code reads it with "max_tokens or ...", which treats the two alike.
OverlapArgs == {0 - 1, 0, 4, 32}
MaxTokensArgs == {0 - 5, 0, 10, 26, 28}
\* max_seq_length of the loaded model (scaled down from 384/512).
ModelMaxLens == {24, 26}
\* The loaded model's weights, as far as the embedder below depends on them.
ModelSeeds == {0, 1}

margin == 8
MinChunkSize == 16

\* __init__ keeping the overlap it is given, only floored at 0.
EmbeddingEvaluator_NoClamp(model_seed, model_max, normalize, chunk_overlap, max_tokens) ==
    LET mt == IF max_tokens # 0 THEN max_tokens ELSE model_max
        cs == Max(MinChunkSize, mt - margin)
    IN  [model |-> model_seed,
         loads |-> 1,
         normalize |-> normalize,
         max_tokens |-> mt,
         margin |-> margin,
         chunk_size |-> cs,
         chunk_overlap |-> Max(0, chunk_overlap)]

\* __init__ sizing the window to the whole token limit, margin not reserved.
EmbeddingEvaluator_NoMargin(model_seed, model_max, normalize, chunk_overlap, max_tokens) ==
    LET mt == IF max_tokens # 0 THEN max_tokens ELSE model_max
        cs == Max(MinChunkSize, mt)
    IN  [model |-> model_seed,
         loads |-> 1,
         normalize |-> normalize,
         max_tokens |-> mt,
         margin |-> margin,
         chunk_size |-> cs,
         chunk_overlap |-> Max(0, Min(chunk_overlap, cs \div 2))]

\* EmbeddingEvaluator.__init__
EmbeddingEvaluator(model_seed, model_max, normalize, chunk_overlap, max_tokens) ==
    LET mt == IF max_tokens # 0 THEN max_tokens ELSE model_max
        cs == Max(MinChunkSize, mt - margin)
    IN  [model |-> model_seed,
         loads |-> 1,
         normalize |-> normalize,
         max_tokens |-> mt,
         margin |-> margin,
         chunk_size |-> cs,
         chunk_overlap |-> Max(0, Min(chunk_overlap, cs \div 2))]

\* ------------------------------------------------------------------ chunker
\* ChunkLoop breaking on "end > len(ids)" in place of "end >= len(ids)".
RECURSIVE ChunkLoop_LateBreak(_, _, _, _, _)
ChunkLoop_LateBreak(ids, start, chunk_size, stride, chunks) ==
    IF start >= Len(ids) THEN chunks
    ELSE LET end == start + chunk_size
             sub_ids == SubSeq(ids, start + 1,
                               IF end < Len(ids) THEN end ELSE Len(ids))
         IN  IF sub_ids = <<>> THEN chunks
             ELSE LET appended == Append(chunks, decode(sub_ids))
                  IN  IF end > Len(ids) THEN appended
                      ELSE ChunkLoop_LateBreak(ids, start + stride, chunk_size,
                                               stride, appended)

\* The for loop of _chunk_by_tokens: start runs over range(0, len(ids), stride).
RECURSIVE ChunkLoop(_, _, _, _, _)
ChunkLoop(ids, start, chunk_size, stride, chunks) ==
    IF start >= Len(ids) THEN chunks
    ELSE LET end == start + chunk_size
             sub_ids == Slice(ids, start, end)
         IN  IF sub_ids = <<>> THEN chunks
             ELSE LET appended == Append(chunks, decode(sub_ids))
                  IN  IF end >= Len(ids) THEN appended
                      ELSE ChunkLoop(ids, start + stride, chunk_size, stride,
                                     appended)

\* FitsOneChunk sending a text of no tokens into the window loop.
FitsOneChunk_NonEmpty(n, chunk_size) == n > 0 /\ n <= chunk_size

\* The "fits in one window" test of _chunk_by_tokens.
FitsOneChunk(n, chunk_size) == n <= chunk_size

\* SingleChunk returning the decoded tokens in place of the text.
SingleChunk_Decoded(s) == <<decode(encode(s))>>

\* What _chunk_by_tokens returns for a text that fits in one window.
SingleChunk(s) == <<s>>

\* Stride stepping past the end of the previous window.
Stride_PastWindow(me) == me.chunk_size + me.chunk_overlap + 1

\* stride = self.chunk_size - self.chunk_overlap
Stride(me) == me.chunk_size - me.chunk_overlap

\* EmbeddingEvaluator._chunk_by_tokens with the windows laid end to end
\* (stride = chunk_size).
chunk_by_tokens_NoOverlap(me, text) ==
    IF ~isinstance_str(text) \/ strip(text.s) = <<>> THEN <<>>
    ELSE LET ids == encode(text.s)
         IN  IF FitsOneChunk(Len(ids), me.chunk_size) THEN SingleChunk(text.s)
             ELSE ChunkLoop(ids, 0, me.chunk_size, me.chunk_size, <<>>)

\* EmbeddingEvaluator._chunk_by_tokens: a sequence of strings.
chunk_by_tokens(me, text) ==
    IF ~isinstance_str(text) \/ strip(text.s) = <<>> THEN <<>>
    ELSE LET ids == encode(text.s)
         IN  IF FitsOneChunk(Len(ids), me.chunk_size) THEN SingleChunk(text.s)
             ELSE ChunkLoop(ids, 0, me.chunk_size, Stride(me), <<>>)

\* ----------------------------------------------------------------- embedder
\* Embedding vectors have two components. A pooled vector is held up to a
\* positive scale factor (the sum in place of the mean, and in place of the
\* re-normalised mean): util.cos_sim, its only consumer, divides both
\* arguments by their norms, so the score does not depend on the scale, and a
\* zero vector stays zero under any scaling.
Axis(h) ==
    CASE h = 0 -> <<1, 0>>
      [] h = 1 -> <<0, 1>>
      [] h = 2 -> <<0 - 1, 0>>
      [] OTHER -> <<0, 0 - 1>>

RECURSIVE SumSeq(_)
SumSeq(q) == IF q = <<>> THEN 0 ELSE Head(q) + SumSeq(Tail(q))

Scale(k, v) == <<k * v[1], k * v[2]>>
Add(v, w) == <<v[1] + w[1], v[2] + w[2]>>
Dot(v, w) == v[1] * w[1] + v[2] * w[2]

\* SentenceTransformer.encode for one text: a deterministic function of the
\* loaded weights and the text's tokens. Unnormalised output has length 1 or
\* 2; with normalize_embeddings it is the unit vector of the same direction.
model_encode(model, s, normalize_embeddings) ==
    LET ids == encode(s)
        dir == Axis((model + SumSeq(ids)) % 4)
    IN  IF normalize_embeddings THEN dir
        ELSE Scale(1 + (Len(ids) % 2), dir)

\* EmbeddingEvaluator._embed_texts: one vector per text, in order.
embed_texts(me, texts) ==
    IF texts = <<>> THEN <<>>
    ELSE [i \in 1..Len(texts) |-> model_encode(me.model, texts[i], me.normalize)]

\* embs.mean(dim=0), then F.normalize when self.normalize (up to scale).
RECURSIVE mean_pool(_)
mean_pool(embs) ==
    IF embs = <<>> THEN <<0, 0>> ELSE Add(Head(embs), mean_pool(Tail(embs)))

\* Outcomes of a call: exc = "" for a normal return of val.
Return(v) == [exc |-> "", val |-> v]
Raise(e) == [exc |-> e, val |-> None_]
Vec(v) == [kind |-> "vec", s |-> v]

\* The truth value Python takes of pd.isna(text) in "pd.isna(text) or ...":
\* a scalar gives a bool; a list gives an element-wise array, whose truth
\* value is its element's when it has one element and a ValueError when it
\* has more. (Lists here hold numbers, none of them missing.)
isna_truth(v) ==
    CASE v.kind \in {"none", "nan"} -> Return(TRUE)
      [] v.kind = "list" /\ Len(v.s) > 1 -> Raise("ValueError")
      [] OTHER -> Return(FALSE)

\* EmbeddingEvaluator._pooled_embedding. backend_fails says whether
\* model.encode raises (resource exhaustion) if this call reaches it.
pooled_embedding(me, text, backend_fails) ==
    LET na == isna_truth(text)
    IN  IF na.exc # "" THEN Raise(na.exc)
        ELSE IF na.val \/ ~isinstance_str(text) \/ strip(text.s) = <<>>
        THEN Return(None_)
        ELSE LET chunks == chunk_by_tokens(me, text)
             IN  IF chunks = <<>> THEN Return(None_)
                 ELSE IF backend_fails THEN Raise("RuntimeError")
                 ELSE LET embs == embed_texts(me, chunks)
                      IN  IF Len(embs) = 0 THEN Return(None_)
                          ELSE Return(Vec(mean_pool(embs)))

\* ------------------------------------------------------------------- scorer
RECURSIVE GCD(_, _)
GCD(a, b) == IF b = 0 THEN a ELSE GCD(b, a % b)

Sign(x) == IF x > 0 THEN 1 ELSE IF x < 0 THEN 0 - 1 ELSE 0

\* cos_sim dividing by the first vector's norm twice, never by the second's.
cos_sim_FirstNormOnly(a, b) ==
    LET d == Dot(a, b)
        n == Dot(a, a) * Dot(a, a)
    IN  IF Dot(a, a) * Dot(b, b) = 0 \/ d = 0 THEN <<0, 0, 1>>
        ELSE LET g == GCD(d * d, n)
             IN  <<Sign(d), (d * d) \div g, n \div g>>

\* util.cos_sim(a, b).item(): both vectors are divided by max(norm, eps) and
\* multiplied, so a zero vector gives the score 0.0 and no division error.
\* The score is held exactly as <<sign, p, q>>, meaning sign * sqrt(p / q)
\* with p / q in lowest terms.
cos_sim(a, b) ==
    LET d == Dot(a, b)
        n == Dot(a, a) * Dot(b, b)
    IN  IF n = 0 \/ d = 0 THEN <<0, 0, 1>>
        ELSE LET g == GCD(d * d, n)
             IN  <<Sign(d), (d * d) \div g, n \div g>>

\* What compute_similarity returns once both pooled vectors exist.
ScoreOf(e1, e2) == Float(cos_sim(e1.s, e2.s))

\* EmbeddingEvaluator.compute_similarity. fails1 / fails2: whether the
\* backend raises during the first / second _pooled_embedding call.
compute_similarity(me, text1, text2, fails1, fails2) ==
    LET e1 == pooled_embedding(me, text1, fails1)
    IN  IF e1.exc # "" THEN e1
        ELSE LET e2 == pooled_embedding(me, text2, fails2)
             IN  IF e2.exc # "" THEN e2
                 ELSE IF e1.val = None_ \/ e2.val = None_ THEN Return(None_)
                 ELSE Return(ScoreOf(e1.val, e2.val))

\* ------------------------------------------------------------------- inputs
\* n distinct tokens written without separators, and the same tokens
\* separated by single spaces.
Words(n) == [i \in 1..n |-> i]
Spaced(n) == decode(Words(n))

\* Every string of at most two characters over these four.
ShortChars == {CTL, SP, 1, 2}
ShortStrings ==
    {<<>>} \cup {<<c>> : c \in ShortChars}
           \cup {<<c, d>> : c \in ShortChars, d \in ShortChars}

LongStrings ==
    {Words(n) : n \in 3..MaxLen} \cup {Spaced(n) : n \in 3..MaxLen}
        \cup {<<SP>> \o Words(n) \o <<CTL, SP>> : n \in 3..MaxLen}

NonStrings == {None_, NaN, Num, List(<<1, 2>>)}

\* Arguments given to _chunk_by_tokens.
ChunkInputs == NonStrings \cup {Str(s) : s \in ShortStrings \cup LongStrings}

\* Arguments given to compute_similarity.
ScoreInputs ==
    NonStrings
        \cup {Str(s) : s \in {<<>>, <<SP>>, <<SP, SP>>, <<CTL>>, <<1>>, <<2>>,
                              <<1, 2>>, <<1, SP, 2>>}}
        \cup {Str(Words(n)) : n \in {17, 21, 35, MaxLen}}

\* -------------------------------------------------------------------- state
Unset == [exc |-> "unset", val |-> None_]

IdleCall ==
    [op |-> "none", text1 |-> None_, text2 |-> None_, chunks |-> <<>>,
     e1 |-> Unset, e2 |-> Unset, res |-> Unset]

NoFile == [exists |-> FALSE, cols |-> {}, data |-> <<>>]
NoErr == [type |-> "", missing |-> <<>>, row |-> 0, section |-> ""]

\* The driver before evaluate_results is called.
DriverIdle ==
    /\ file = NoFile
    /\ pc = "idle"
    /\ df = NoFile
    /\ si = 0
    /\ ncalls = 0
    /\ err = NoErr
    /\ outfile = NoFile
    /\ ret = ""
    /\ stdout = <<>>

driverVars == <<file, pc, df, si, ncalls, err, outfile, ret, stdout>>

\* Any evaluator the constructor can build.
Constructed ==
    \E model_seed \in ModelSeeds, model_max \in ModelMaxLens,
       normalize_embeddings \in BOOLEAN,
       chunk_overlap \in OverlapArgs, max_tokens \in MaxTokensArgs :
        self = EmbeddingEvaluator(model_seed, model_max, normalize_embeddings,
                                  chunk_overlap, max_tokens)

\* ------------------------------------------------- calls on the evaluator
\* A call of _chunk_by_tokens(text).
CallChunkByTokens(text) ==
    /\ call.op = "none"
    /\ call' = [IdleCall EXCEPT !.op = "chunk", !.text1 = text,
                                !.chunks = chunk_by_tokens(self, text)]
    /\ UNCHANGED <<self, driverVars>>

\* CallComputeSimilarity building a new model for the call.
CallComputeSimilarity_Reloads(text1, text2, fails1, fails2) ==
    LET e1 == pooled_embedding(self, text1, fails1)
        e2 == IF e1.exc # "" THEN Unset
              ELSE pooled_embedding(self, text2, fails2)
    IN  /\ call.op = "none"
        /\ call' = [IdleCall EXCEPT
                        !.op = "score", !.text1 = text1, !.text2 = text2,
                        !.e1 = e1, !.e2 = e2,
                        !.res = compute_similarity(self, text1, text2,
                                                   fails1, fails2)]
        /\ self' = [self EXCEPT !.loads = @ + 1]
        /\ UNCHANGED driverVars

\* A call of compute_similarity(text1, text2); e1 and e2 are its locals.
CallComputeSimilarity(text1, text2, fails1, fails2) ==
    LET e1 == pooled_embedding(self, text1, fails1)
        e2 == IF e1.exc # "" THEN Unset
              ELSE pooled_embedding(self, text2, fails2)
    IN  /\ call.op = "none"
        /\ call' = [IdleCall EXCEPT
                        !.op = "score", !.text1 = text1, !.text2 = text2,
                        !.e1 = e1, !.e2 = e2,
                        !.res = compute_similarity(self, text1, text2,
                                                   fails1, fails2)]
        /\ UNCHANGED <<self, driverVars>>

\* The caller takes the result; the evaluator is ready for the next call.
CallReturns ==
    /\ call.op # "none"
    /\ call' = IdleCall
    /\ UNCHANGED <<self, driverVars>>

InitEvaluator == Constructed /\ call = IdleCall /\ DriverIdle

NextChunker ==
    \/ \E text \in ChunkInputs : CallChunkByTokens(text)
    \/ CallReturns

SpecChunker == InitEvaluator /\ [][NextChunker]_vars

NextScorer ==
    \/ \E text1 \in ScoreInputs, text2 \in ScoreInputs, fails1 \in BOOLEAN,
       fails2 \in BOOLEAN :
        CallComputeSimilarity(text1, text2, fails1, fails2)
    \/ CallReturns

SpecScorer == InitEvaluator /\ [][NextScorer]_vars

\* ------------------------------------------------------------------- driver
Sections == <<"facts", "issue", "decision", "reasons", "ratio">>

AiCol(section) ==
    CASE section = "facts" -> "ai_facts"
      [] section = "issue" -> "ai_issue"
      [] section = "decision" -> "ai_decision"
      [] section = "reasons" -> "ai_reasons"
      [] OTHER -> "ai_ratio"

HumanCol(section) ==
    CASE section = "facts" -> "human_facts"
      [] section = "issue" -> "human_issue"
      [] section = "decision" -> "human_decision"
      [] section = "reasons" -> "human_reasons"
      [] OTHER -> "human_ratio"

\* col_name = f"{section}_similarity"
SimCol(section) ==
    CASE section = "facts" -> "facts_similarity"
      [] section = "issue" -> "issue_similarity"
      [] section = "decision" -> "decision_similarity"
      [] section = "reasons" -> "reasons_similarity"
      [] OTHER -> "ratio_similarity"

required ==
    <<"ai_facts", "human_facts", "ai_issue", "human_issue", "ai_decision",
      "human_decision", "ai_reasons", "human_reasons", "ai_ratio",
      "human_ratio">>

output_file == "results/evaluated_case_model_results_with_section_similarity.csv"

Range(q) == {q[i] : i \in 1..Len(q)}

\* pd.read_csv: an empty field is NaN; a column whose non-empty fields are
\* all numbers is numeric; any other field is kept as the string it is.
IsNumberField(f) == f # <<>> /\ \A i \in 1..Len(f) : f[i] = DIGIT

NumericColumn(f, c) ==
    \A r \in 1..Len(f.data) : f.data[r][c] = <<>> \/ IsNumberField(f.data[r][c])

read_csv(f) ==
    [exists |-> TRUE,
     cols |-> f.cols,
     data |-> [r \in 1..Len(f.data) |->
                 [c \in f.cols |->
                     IF f.data[r][c] = <<>> THEN NaN
                     ELSE IF NumericColumn(f, c) THEN Num
                     ELSE Str(f.data[r][c])]]]

\* MissingColumns stopping at the first missing column.
MissingColumns_FirstOnly(cols) ==
    LET absent(c) == c \notin cols
        all == SelectSeq(required, absent)
    IN  IF all = <<>> THEN <<>> ELSE <<all[1]>>

\* missing = [c for c in required if c not in df.columns]
MissingColumns(cols) ==
    LET absent(c) == c \notin cols IN SelectSeq(required, absent)

\* The list comprehension of one section: compute_similarity for every row in
\* order. fault names the cell (row, side) whose backend call fails, if any.
NoFault == <<0, "">>

\* SectionScores comparing every section's AI text with the human facts.
SectionScores_HumanFacts(me, d, section, fault) ==
    [r \in 1..Len(d.data) |->
        compute_similarity(me, d.data[r][AiCol(section)],
                           d.data[r]["human_facts"],
                           fault = <<r, "ai">>, fault = <<r, "human">>)]

SectionScores(me, d, section, fault) ==
    [r \in 1..Len(d.data) |->
        compute_similarity(me, d.data[r][AiCol(section)],
                           d.data[r][HumanCol(section)],
                           fault = <<r, "ai">>, fault = <<r, "human">>)]

\* df[col_name] = [...]: adds the column, or replaces one of that name.
SetColumn(d, c, vals) ==
    [d EXCEPT !.cols = @ \cup {c},
              !.data = [r \in 1..Len(d.data) |->
                           [k \in d.cols \cup {c} |->
                               IF k = c THEN vals[r] ELSE d.data[r][k]]]]

\* A line printed by evaluate_results: print(f"{text} {arg}").
Printed(text, arg) == [text |-> text, arg |-> arg]

\* main(input_file) has built the evaluator and calls evaluate_results:
\* df = pd.read_csv(input_file).
ReadCsv ==
    /\ pc = "start"
    /\ df' = read_csv(file)
    /\ pc' = "validate"
    /\ UNCHANGED <<self, call, file, si, ncalls, err, outfile, ret, stdout>>

\* The required-column check; raises ValueError naming the missing columns.
Validate ==
    /\ pc = "validate"
    /\ LET missing == MissingColumns(df.cols)
       IN  IF missing # <<>>
           THEN /\ pc' = "raised"
                /\ err' = [NoErr EXCEPT !.type = "ValueError", !.missing = missing]
                /\ si' = si
           ELSE /\ pc' = "score"
                /\ si' = 1
                /\ err' = err
    /\ UNCHANGED <<self, call, file, df, ncalls, outfile, ret, stdout>>

\* One iteration of "for section in sections": the whole column is computed,
\* then assigned. An exception out of compute_similarity leaves the loop and
\* evaluate_results; nothing in evaluate_results catches it.
ScoreSection ==
    /\ pc = "score"
    /\ \E fault \in {NoFault} \cup ((1..Len(df.data)) \X {"ai", "human"}) :
        LET section == Sections[si]
            outs == SectionScores(self, df, section, fault)
            raising == {r \in 1..Len(outs) : outs[r].exc # ""}
        IN  IF raising # {}
            THEN LET r == CHOOSE x \in raising : \A y \in raising : x <= y
                 IN  /\ pc' = "raised"
                     /\ err' = [NoErr EXCEPT !.type = outs[r].exc, !.row = r,
                                             !.section = section]
                     /\ ncalls' = ncalls + r
                     /\ UNCHANGED <<df, si, stdout>>
            ELSE /\ df' = SetColumn(df, SimCol(section),
                                    [r \in 1..Len(outs) |-> outs[r].val])
                 /\ ncalls' = ncalls + Len(outs)
                 /\ stdout' = Append(stdout, Printed("Finished computing",
                                                     SimCol(section)))
                 /\ IF si = Len(Sections)
                    THEN pc' = "save" /\ si' = si
                    ELSE pc' = "score" /\ si' = si + 1
                 /\ err' = err
    /\ UNCHANGED <<self, call, file, outfile, ret>>

\* df.to_csv(output_file, index=False); return output_file
Save ==
    /\ pc = "save"
    /\ outfile' = df
    /\ ret' = output_file
    /\ stdout' = Append(stdout, Printed("Evaluation complete. Results saved to",
                                        output_file))
    /\ pc' = "done"
    /\ UNCHANGED <<self, call, file, df, si, ncalls, err>>

\* ------------------------------------------------------------ input tables
\* Largest number of columns an input table lacks.
MaxDropped == 2

InputCols == Range(required) \cup {"Model_ID", "facts_similarity"}

SampleRows ==
    {[Model_ID |-> <<1>>, facts_similarity |-> <<DIGIT>>,
      ai_facts |-> <<1>>, human_facts |-> <<1>>,
      ai_issue |-> <<1>>, human_issue |-> <<2>>,
      ai_decision |-> <<1, 2>>, human_decision |-> <<3>>,
      ai_reasons |-> <<1, SP, 2>>, human_reasons |-> <<2, 2>>,
      ai_ratio |-> <<2>>, human_ratio |-> <<1, 3>>],
     [Model_ID |-> <<2>>, facts_similarity |-> <<>>,
      ai_facts |-> <<>>, human_facts |-> <<1>>,
      ai_issue |-> <<SP>>, human_issue |-> <<2>>,
      ai_decision |-> <<DIGIT>>, human_decision |-> <<DIGIT, DIGIT>>,
      ai_reasons |-> <<CTL>>, human_reasons |-> <<1>>,
      ai_ratio |-> <<2>>, human_ratio |-> <<>>],
     [Model_ID |-> <<1>>, facts_similarity |-> <<DIGIT>>,
      ai_facts |-> Words(17), human_facts |-> Spaced(MaxLen),
      ai_issue |-> <<2>>, human_issue |-> <<1>>,
      ai_decision |-> <<DIGIT>>, human_decision |-> <<1>>,
      ai_reasons |-> <<1>>, human_reasons |-> <<1>>,
      ai_ratio |-> Words(35), human_ratio |-> <<3>>]}

RECURSIVE SeqsUpTo(_, _)
SeqsUpTo(S, n) ==
    IF n = 0 THEN {<<>>}
    ELSE LET shorter == SeqsUpTo(S, n - 1)
         IN  shorter \cup {Append(q, x) : q \in shorter, x \in S}

Restrict(row, cols) == [c \in cols |-> row[c]]

InputFiles ==
    {[exists |-> TRUE,
      cols |-> InputCols \ dropped,
      data |-> [r \in 1..Len(rows) |-> Restrict(rows[r], InputCols \ dropped)]] :
        rows \in SeqsUpTo(SampleRows, MaxRows),
        dropped \in {d \in SUBSET (Range(required) \cup {"facts_similarity"}) :
                        Cardinality(d) <= MaxDropped}}

\* What the output path holds before the run: nothing, or an older file.
StaleFile == [exists |-> TRUE, cols |-> {"stale"}, data |-> <<>>]

\* main(): the evaluator is built with chunk_overlap = 32, max_tokens = None
\* and normalize_embeddings = True, then evaluate_results(input_file) starts.
Init ==
    /\ \E model_seed \in ModelSeeds, model_max \in ModelMaxLens :
        self = EmbeddingEvaluator(model_seed, model_max, TRUE, 32, 0)
    /\ call = IdleCall
    /\ file \in InputFiles
    /\ pc = "start"
    /\ df = NoFile
    /\ si = 0
    /\ ncalls = 0
    /\ err = NoErr
    /\ outfile \in {NoFile, StaleFile}
    /\ ret = ""
    /\ stdout = <<>>

Next == ReadCsv \/ Validate \/ ScoreSection \/ Save

Spec == Init /\ [][Next]_vars

\* ------------------------------------ any sequence of calls on one evaluator
\* Input tables of the calls below: at most one row, at most one column
\* dropped.
EvalFiles ==
    {f \in InputFiles : Len(f.data) <= 1 /\ Cardinality(InputCols \ f.cols) <= 1}

\* A call of evaluate_results(input_file) on the idle evaluator.
StartEvaluate(f) ==
    /\ pc = "idle"
    /\ call.op = "none"
    /\ file' = f
    /\ pc' = "start"
    /\ UNCHANGED <<self, call, df, si, ncalls, err, outfile, ret, stdout>>

\* evaluate_results has returned or raised; the caller takes the path or the
\* exception and the written file, and the evaluator is ready for the next
\* call.
EvaluateReturns ==
    /\ pc \in {"done", "raised"}
    /\ file' = NoFile
    /\ pc' = "idle"
    /\ df' = NoFile
    /\ si' = 0
    /\ ncalls' = 0
    /\ err' = NoErr
    /\ outfile' = NoFile
    /\ ret' = ""
    /\ stdout' = <<>>
    /\ UNCHANGED <<self, call>>

NextEvaluator ==
    \/ pc = "idle" /\ \E text \in ChunkInputs : CallChunkByTokens(text)
    \/ pc = "idle" /\ \E text1 \in ScoreInputs, text2 \in ScoreInputs,
                        fails1 \in BOOLEAN, fails2 \in BOOLEAN :
                        CallComputeSimilarity(text1, text2, fails1, fails2)
    \/ CallReturns
    \/ \E f \in EvalFiles : StartEvaluate(f)
    \/ ReadCsv
    \/ Validate
    \/ ScoreSection
    \/ Save
    \/ EvaluateReturns

SpecEvaluator == InitEvaluator /\ [][NextEvaluator]_vars

\* ======================================================= claims: chunker
\* The last _chunk_by_tokens call, as the claims speak of it.
ChunkCalled == call.op = "chunk"
CallIsText == call.text1.kind = "str" /\ strip(call.text1.s) # <<>>
CallIds == encode(call.text1.s)
CallN == Len(CallIds)
\* A call whose text has more tokens than one window holds.
LongChunkCall == ChunkCalled /\ CallIsText /\ CallN > self.chunk_size

\* Window k (k = 0, 1, ...) as token positions lo+1..hi of CallIds.
WinLo(k) == k * (self.chunk_size - self.chunk_overlap)
WinHi(k) == Min(WinLo(k) + self.chunk_size, CallN)
\* The first k whose window reaches the end of the tokens.
LastWin ==
    CHOOSE k \in 0..CallN :
        /\ WinLo(k) + self.chunk_size >= CallN
        /\ \A j \in 0..(k - 1) : WinLo(j) + self.chunk_size < CallN

\* C7: for a text of n > chunk_size tokens, _chunk_by_tokens returns, in
\* order, the decodings of the token windows [k*stride, min(k*stride +
\* chunk_size, n)) for k = 0, 1, ..., stopping at the first window whose end
\* reaches n; every window is non-empty, only the last may be shorter than
\* chunk_size, and no window starts at or beyond n.
C7_WindowsAsSpecified ==
    LongChunkCall =>
        /\ Len(call.chunks) = LastWin + 1
        /\ \A k \in 0..LastWin :
            /\ call.chunks[k + 1] = decode(SubSeq(CallIds, WinLo(k) + 1, WinHi(k)))
            /\ WinLo(k) < CallN
            /\ WinHi(k) > WinLo(k)
            /\ (k < LastWin => WinHi(k) - WinLo(k) = self.chunk_size)

\* A long text cut into at least three windows, the last one clipped.
C7_Witness ==
    /\ LongChunkCall
    /\ Len(call.chunks) >= 3
    /\ self.chunk_overlap > 0
    /\ WinHi(LastWin) - WinLo(LastWin) < self.chunk_size

\* The tokens of the k-th returned chunk (k = 1, 2, ...), as a set. The
\* tokens of every long input are pairwise distinct.
ChunkTokens(k) == {encode(call.chunks[k])[i] : i \in 1..Len(encode(call.chunks[k]))}
\* The smallest k >= 1 with (k-1)*stride + chunk_size >= n.
ExpectedCount ==
    CHOOSE k \in 1..(CallN + 1) :
        /\ (k - 1) * (self.chunk_size - self.chunk_overlap) + self.chunk_size >= CallN
        /\ \A j \in 1..(k - 1) :
            (j - 1) * (self.chunk_size - self.chunk_overlap) + self.chunk_size < CallN

\* C8: for a token sequence longer than chunk_size the chunker returns the
\* expected number of chunks, each chunk holds at most chunk_size tokens, and
\* consecutive chunks share exactly chunk_overlap tokens (except possibly
\* where the later one is the final, clipped chunk).
C8_CountSizeOverlap ==
    LongChunkCall =>
        /\ Len(call.chunks) = ExpectedCount
        /\ \A k \in 1..Len(call.chunks) :
            Len(encode(call.chunks[k])) <= self.chunk_size
        /\ \A k \in 1..(Len(call.chunks) - 1) :
            \/ Cardinality(ChunkTokens(k) \cap ChunkTokens(k + 1))
                    = self.chunk_overlap
            \/ /\ k + 1 = Len(call.chunks)
               /\ Len(encode(call.chunks[k + 1])) < self.chunk_size

\* A text of exactly 3 * stride + 1 tokens, chunked with a real overlap.
C8_Witness ==
    /\ LongChunkCall
    /\ CallN = 3 * (self.chunk_size - self.chunk_overlap) + 1
    /\ self.chunk_overlap > 0
    /\ Len(call.chunks) >= 3

\* C9: _chunk_by_tokens returns the empty sequence if and only if its input
\* is the empty string, an all-whitespace string or not a string; every
\* non-blank string, also one with no tokens, gives at least one chunk.
C9_EmptyOnlyFromGuard ==
    ChunkCalled => (call.chunks = <<>> <=> ~CallIsText)

\* A non-blank string that tokenizes to nothing still gives a chunk.
C9_Witness ==
    /\ ChunkCalled
    /\ CallIsText
    /\ CallN = 0
    /\ call.chunks # <<>>

\* C10: for a non-blank string of at most chunk_size tokens,
\* _chunk_by_tokens returns the one-element sequence holding the original
\* text itself, not a decoding of its tokens.
C10_ShortTextUnmodified ==
    (ChunkCalled /\ CallIsText /\ CallN <= self.chunk_size)
        => call.chunks = <<call.text1.s>>

\* A text of exactly chunk_size tokens that differs from its own decoding.
C10_Witness ==
    /\ ChunkCalled
    /\ CallIsText
    /\ CallN = self.chunk_size
    /\ decode(CallIds) # call.text1.s
    /\ call.chunks = <<call.text1.s>>

\* C11: for every constructor configuration the evaluator ends up with
\* chunk_size = max(16, max_tokens - 8) >= 16 and 0 <= chunk_overlap <=
\* chunk_size // 2, so 0 <= chunk_overlap < chunk_size holds, the stride is
\* at least 1, and the chunking loop advances and ends (it returns no more
\* chunks than the text has tokens).
C11_WindowConfigurationSound ==
    /\ self.chunk_size = Max(16, self.max_tokens - 8)
    /\ self.chunk_size >= 16
    /\ 0 <= self.chunk_overlap
    /\ self.chunk_overlap <= self.chunk_size \div 2
    /\ self.chunk_overlap < self.chunk_size
    /\ self.chunk_size - self.chunk_overlap >= 1
    /\ LongChunkCall => Len(call.chunks) <= CallN

\* An overlap argument larger than the window was clamped to half of it, and
\* a long text has been chunked with the resulting stride.
C11_Witness ==
    /\ self.chunk_overlap = self.chunk_size \div 2
    /\ self.chunk_overlap # 4
    /\ LongChunkCall
    /\ Len(call.chunks) >= 2

\* Tokens of the k-th returned chunk, as a sequence.
ChunkIds(k) == encode(call.chunks[k])

\* C15: chunking discards no content: for a text of n >= 1 tokens every
\* token lies in at least one returned chunk, and the chunks taken in order
\* cover the tokens contiguously, with no gap between the end of one chunk
\* and the start of the next. (Token ids of a long input are its positions.)
C15_NoTokenDiscarded ==
    (ChunkCalled /\ CallIsText /\ CallN >= 1) =>
        /\ call.chunks # <<>>
        /\ UNION {ChunkTokens(k) : k \in 1..Len(call.chunks)}
               = {CallIds[i] : i \in 1..CallN}
        /\ ChunkIds(1)[1] = CallIds[1]
        /\ ChunkIds(Len(call.chunks))[Len(ChunkIds(Len(call.chunks)))]
               = CallIds[CallN]
        /\ \A k \in 1..(Len(call.chunks) - 1) :
            ChunkIds(k + 1)[1] <= ChunkIds(k)[Len(ChunkIds(k))] + 1

\* Three or more windows laid end to end (overlap 0): the tightest case.
C15_Witness ==
    /\ LongChunkCall
    /\ self.chunk_overlap = 0
    /\ Len(call.chunks) >= 3
    /\ ChunkIds(2)[1] = ChunkIds(1)[Len(ChunkIds(1))] + 1

\* C16 as stated: for every configuration the window size plus the safety
\* margin fits within the token limit in use: chunk_size + 8 <= max_tokens.
C16_WindowPlusMarginFits ==
    self.chunk_size + 8 <= self.max_tokens

\* C16 amended: chunk_size + 8 <= max_tokens holds when the token limit in
\* use is at least 24; below that the floor gives chunk_size = 16, which is
\* more than max_tokens - 8.
C16_FitsAboveFloor ==
    /\ self.max_tokens >= 24 => self.chunk_size + 8 <= self.max_tokens
    /\ self.max_tokens < 24 =>
           (self.chunk_size = 16 /\ self.chunk_size + 8 > self.max_tokens)

\* A limit above the floor, and a text cut into windows of that size.
C16_Witness ==
    /\ self.max_tokens > 24
    /\ LongChunkCall
    /\ Len(ChunkIds(1)) = self.max_tokens - 8

\* ======================================================== claims: scorer
ScoreCalled == call.op = "score"
\* A passage that is missing, empty, blank or not text.
Absent(v) == v.kind # "str" \/ strip(v.s) = <<>>
IsVec(e) == e.exc = "" /\ e.val.kind = "vec"
ZeroNorm(e) == IsVec(e) /\ Dot(e.val.s, e.val.s) = 0

\* C2: compute_similarity(text1, text2) returns None whenever either
\* argument is missing, empty, all-whitespace or not a string; it never
\* raises and never returns a number then, whatever the other argument.
C2_NullWheneverAbsent ==
    (ScoreCalled /\ (Absent(call.text1) \/ Absent(call.text2)))
        => call.res = Return(None_)

\* C4: if either pooled document vector has L2 norm exactly zero,
\* compute_similarity returns None: no division error and no numeric score.
C4_ZeroNormGivesNull ==
    (ScoreCalled /\ IsVec(call.e1) /\ IsVec(call.e2)
        /\ (ZeroNorm(call.e1) \/ ZeroNorm(call.e2)))
        => call.res = Return(None_)

\* C13: compute_similarity is symmetric: compute_similarity(a, b) equals
\* compute_similarity(b, a), both null or the same score, also when one or
\* both passages are missing or blank. (The call that returned is compared
\* with the swapped call on the same evaluator and a working backend.)
C13_Symmetric ==
    (ScoreCalled /\ call.res.exc = "") =>
        call.res = compute_similarity(self, call.text2, call.text1, FALSE, FALSE)

\* Two different texts with a score strictly between 0 and 1 in size.
C13_Witness ==
    /\ ScoreCalled
    /\ call.res.exc = ""
    /\ call.res.val.kind = "float"
    /\ call.text1 # call.text2
    /\ call.res.val.s[1] # 0
    /\ call.res.val.s[2] # call.res.val.s[3]

\* ======================================================== claims: driver
SimCols == {SimCol(Sections[i]) : i \in 1..Len(Sections)}
Terminated == pc \in {"done", "raised"}
\* The output path holds what it held before the run.
OutputUntouched == outfile \in {NoFile, StaleFile}
\* The input table as evaluate_results reads it.
InputTable == read_csv(file)
SchemaValid == Range(required) \subseteq file.cols

\* C1: a failure raised while scoring one (row, section) pair does not abort
\* the batch: the cell is recorded as null, every other cell is still scored
\* and the run continues to completion.
C1_CellFailureDoesNotAbort ==
    ~(pc = "raised" /\ err.type = "RuntimeError")

\* C3: when the input table lacks required columns, evaluate_results fails
\* with one error that lists every missing column, before any row is scored
\* and before any output file is written.
C3_MissingColumnsFailFast ==
    ~SchemaValid =>
        /\ pc \in {"start", "validate", "raised"}
        /\ ncalls = 0
        /\ OutputUntouched
        /\ ret = ""
        /\ pc = "raised" =>
            /\ err.type = "ValueError"
            /\ Range(err.missing) = Range(required) \ file.cols
            /\ Len(err.missing) = Cardinality(Range(required) \ file.cols)
            /\ df = InputTable

\* A table with rows and two required columns missing has been rejected.
C3_Witness ==
    /\ pc = "raised"
    /\ Len(err.missing) = 2
    /\ Len(file.data) > 0

\* The score compute_similarity gives row r of the input table for a section.
ScorerResult(r, section) ==
    compute_similarity(self, InputTable.data[r][AiCol(section)],
                       InputTable.data[r][HumanCol(section)], FALSE, FALSE).val

CellsAttributed ==
    \A r \in 1..Len(outfile.data) : \A i \in 1..Len(Sections) :
        outfile.data[r][SimCol(Sections[i])] = ScorerResult(r, Sections[i])

\* C5 as stated: the output has the input's rows in order and all input
\* columns unchanged, plus exactly the five <section>_similarity columns, and
\* cell (r, s_similarity) is the scorer's result on (ai_s, human_s) of row r.
C5_InputPlusFiveColumns ==
    pc = "done" =>
        /\ Len(outfile.data) = Len(InputTable.data)
        /\ outfile.cols = InputTable.cols \cup SimCols
        /\ Cardinality(outfile.cols) = Cardinality(InputTable.cols) + 5
        /\ \A r \in 1..Len(outfile.data) : \A c \in InputTable.cols :
            outfile.data[r][c] = InputTable.data[r][c]
        /\ CellsAttributed

\* C5 amended: the output has the input's rows in order, every input column
\* not named <section>_similarity unchanged, and the five
\* <section>_similarity columns (an input column of such a name is
\* replaced); cell (r, s_similarity) is the scorer's result on (ai_s,
\* human_s) of row r.
C5_InputColumnsKeptScoresAttributed ==
    pc = "done" =>
        /\ Len(outfile.data) = Len(InputTable.data)
        /\ outfile.cols = InputTable.cols \cup SimCols
        /\ \A r \in 1..Len(outfile.data) : \A c \in InputTable.cols \ SimCols :
            outfile.data[r][c] = InputTable.data[r][c]
        /\ CellsAttributed

\* A finished run over two different rows, one with missing passages, with
\* numeric and null scores in the output.
C5_Witness ==
    /\ pc = "done"
    /\ Len(outfile.data) = 2
    /\ outfile.data[1] # outfile.data[2]
    /\ \E i \in 1..Len(Sections) :
        outfile.data[1][SimCol(Sections[i])].kind = "float"
    /\ \E r \in 1..2 : \E i \in 1..Len(Sections) :
        outfile.data[r][SimCol(Sections[i])] = None_

\* C6: every run that gets past startup (schema valid) ends with the
\* augmented table written to the fixed output location and that path
\* returned.
C6_OutputAlwaysWritten ==
    (Terminated /\ SchemaValid) =>
        /\ pc = "done"
        /\ ~OutputUntouched
        /\ ret = output_file

\* C12: the embedding model is loaded exactly once, at construction, and
\* reused read-only: no sequence of _chunk_by_tokens, compute_similarity
\* (with _pooled_embedding and _embed_texts inside it) or evaluate_results
\* calls reloads the model or changes the evaluator's attributes.
C12_LoadedOnceReadOnly ==
    [](self.loads = 1) /\ [][self' = self]_vars

\* evaluate_results has scored a row in all five sections on an evaluator
\* whose model was loaded once.
C12_Witness ==
    /\ pc = "done"
    /\ ncalls >= 5
    /\ self.loads = 1

\* A line other than the progress and completion lines has been printed.
FailureSummaryPrinted ==
    \E i \in 1..Len(stdout) :
        stdout[i].text \notin {"Finished computing",
                               "Evaluation complete. Results saved to"}

\* C14: when the embedding backend fails for some cells of a batch run, the
\* failures are caught per cell and, at the end of the run, a summary count
\* of the failed cells is surfaced to the user.
C14_FailureCountSurfaced ==
    (Terminated /\ err.type = "RuntimeError") =>
        /\ pc = "done"
        /\ FailureSummaryPrinted

====
